---- MODULE Spec2Model ----
(***************************************************************************)
(* Model of src/pages/index.tsx: the OpenAPI -> GitBook bundle pipeline    *)
(* (collateTags, createTagPage, createSummaryFile, createReadmeFile,       *)
(* createZipBundle) and the upload handler Home.handleFileUpload with its  *)
(* React state (error, zipUrl) and its three suspension points.           *)
(***************************************************************************)
EXTENDS Naturals, Sequences, FiniteSets, TLC

VARIABLES error, zipUrl, runs

vars == <<error, zipUrl, runs>>

(***************************************************************************)
(* Bounds of the input space.                                              *)
(***************************************************************************)
\* operations (path x method) per uploaded document
MaxOps == 3
\* tag names listed by all operations of one document together
MaxRefs == 2
\* uploads started in one session of the page
MaxRuns == 2

\* tag names of the generated documents: an ordinary one, the two whose
\* page path is that of a fixed archive entry, and the name of the
\* synthetic untagged tag
Names == {"pets", "README", "SUMMARY", "__internal-untagged"}
\* the paths of a document, in the order it declares them
PathOrder == <<"/pets", "/owners">>
Methods == {"get", "post"}
Titles == {"Pet Store"}

\* the JavaScript value undefined, where it is interpolated into or compared
\* with a string
Undefined == "undefined"

(***************************************************************************)
(* Documents.  A JavaScript object is a sequence of entries in key         *)
(* insertion order (what Object.entries yields for non-integer keys).     *)
(*   doc  = [info, hasTags, tags : Seq(TagObject), paths : Seq(PathItem),  *)
(*           valid]                                                        *)
(*   TagObject = [name, description]                                       *)
(*   PathItem  = [path, operations : Seq([operation, operationObject])]    *)
(*   operationObject = [hasTags, tags : Seq(name)]                         *)
(* hasTags = FALSE is an absent (undefined) tags property; valid is the    *)
(* verdict of the OpenAPI validator on the document.                       *)
(***************************************************************************)
TagObj(n, d) == [name |-> n, description |-> d]

\* the order in which a document declares its tags; the last entry repeats
\* the first name with another description
DeclaredOrder ==
    << TagObj("pets", "Everything about pets"),
       TagObj("README", "Read me"),
       TagObj("__internal-untagged", "Declared under the synthetic name"),
       TagObj("SUMMARY", "Summary"),
       TagObj("pets", "A second tag named pets") >>

DeclaredLists == { SubSeq(DeclaredOrder, 1, n) : n \in {0, 2, 4, 5} }

InjSeqs(S) ==
    UNION { { s \in [1..n -> S] : \A i, j \in 1..n : i # j => s[i] # s[j] }
            : n \in 0..Cardinality(S) }

TagSeqs(r) == UNION { [1..n -> Names] : n \in 0..r }

\* sequences of k tag lists with at most r names in all
RECURSIVE TagAssignments(_, _)
TagAssignments(k, r) ==
    IF k = 0 THEN { <<>> }
    ELSE UNION { { <<t>> \o rest : rest \in TagAssignments(k - 1, r - Len(t)) }
                 : t \in TagSeqs(r) }

RECURSIVE SumLen(_)
SumLen(ss) == IF ss = <<>> THEN 0 ELSE Len(Head(ss)) + SumLen(Tail(ss))

\* a shape: the paths in declaration order, each with its methods in
\* declaration order (no path item is empty)
Shapes ==
    UNION { { [i \in 1..n |-> [path |-> PathOrder[i], methods |-> ms[i]]]
              : ms \in { m \in [1..n -> InjSeqs(Methods) \ {<<>>}]
                         : SumLen(m) <= MaxOps } }
            : n \in 0..Len(PathOrder) }

ShapeOps(shape) == SumLen([i \in 1..Len(shape) |-> shape[i].methods])

\* number of operations of the path items before the i-th
RECURSIVE OpsBefore(_, _)
OpsBefore(shape, i) ==
    IF i <= 1 THEN 0
    ELSE OpsBefore(shape, i - 1) + Len(shape[i - 1].methods)

PathsOf(shape, ta) ==
    [ i \in 1..Len(shape) |->
        [ path |-> shape[i].path,
          operations |->
            [ j \in 1..Len(shape[i].methods) |->
                [ operation |-> shape[i].methods[j],
                  operationObject |->
                    [ hasTags |-> TRUE,
                      tags |-> ta[OpsBefore(shape, i) + j] ] ] ] ] ]

MkDoc(t, has, tg, ps) ==
    [info |-> [title |-> t], hasTags |-> has, tags |-> tg, paths |-> ps, valid |-> TRUE]

(***************************************************************************)
(* Uploaded files.  The bytes of a file are its text in UTF-8, with or     *)
(* without a byte order mark; a text is JSON or YAML syntax for a          *)
(* document, or no YAML at all.                                            *)
(***************************************************************************)
NoDoc == MkDoc("", FALSE, <<>>, <<>>)

MkText(syn, d) == [syntax |-> syn, doc |-> d]

MkFile(n, b, t) == [name |-> n, bom |-> b, text |-> t]

GarbageText == MkText("garbage", NoDoc)

\* one well-formed document with a tagged and an untagged operation
\* (the example of the specification)
PetStorePaths ==
    << [ path |-> "/pets",
         operations |-> << [ operation |-> "get",
                             operationObject |-> [hasTags |-> TRUE, tags |-> <<"pets">>] ] >> ],
       [ path |-> "/owners",
         operations |-> << [ operation |-> "post",
                             operationObject |-> [hasTags |-> TRUE, tags |-> <<>>] ] >> ] >>

PetStore == MkDoc("Pet Store", TRUE, SubSeq(DeclaredOrder, 1, 2), PetStorePaths)

\* an entry of a path item whose value has no tags property (an operation
\* that leaves tags out, or a key such as parameters), and a document
\* without a tags property
NoOpTagsPaths ==
    << [ path |-> "/pets",
         operations |-> << [ operation |-> "get",
                             operationObject |-> [hasTags |-> FALSE, tags |-> <<>>] ] >> ] >>

NoOpTagsDoc == MkDoc("Pet Store", TRUE, SubSeq(DeclaredOrder, 1, 2), NoOpTagsPaths)

NoDocTagsDoc == MkDoc("Pet Store", FALSE, <<>>, PetStorePaths)

\* a document the validator rejects
InvalidDoc == [PetStore EXCEPT !.valid = FALSE]

\* a document whose one operation lists the one declared tag, named n
OneTagDoc(n) ==
    MkDoc("Pet Store", TRUE, << TagObj(n, "About " \o n) >>,
          << [ path |-> "/pets",
               operations |-> << [ operation |-> "get",
                                   operationObject |-> [hasTags |-> TRUE, tags |-> <<n>>] ] >> ] >>)

\* tag names whose page path is, or is close to, another fixed archive entry
EntryNames == {".gitbook/openapi.yaml", ".gitbook/openapi"}

\* the other files: a refused extension, text that is no YAML, a rejected
\* document, a byte order mark, JSON under a .yaml name, and the two
\* documents on which collateTags throws
OddFiles ==
    { MkFile("openapi.yml", FALSE, MkText("yaml", PetStore)),
      MkFile("openapi.yaml", FALSE, GarbageText),
      MkFile("openapi.json", FALSE, MkText("json", InvalidDoc)),
      MkFile("openapi.yaml", TRUE, MkText("yaml", PetStore)),
      MkFile("openapi.yaml", FALSE, MkText("json", PetStore)),
      MkFile("openapi.yaml", FALSE, MkText("yaml", NoOpTagsDoc)),
      MkFile("openapi.yaml", FALSE, MkText("yaml", NoDocTagsDoc)) }

\* a document in JSON or in YAML syntax, in a file named accordingly
Syntaxes == {"json", "yaml"}

DocFile(syn, d) == MkFile("openapi." \o syn, FALSE, MkText(syn, d))

NamedFiles == { DocFile(syn, OneTagDoc(n)) : syn \in Syntaxes, n \in EntryNames }

\* the files of the sessions with several uploads
SessionFiles ==
    OddFiles \cup { DocFile("json", PetStore) }

(***************************************************************************)
(* validateFileIsJsonOrYaml, ab2str, YAML.parse, SwaggerParser.validate    *)
(***************************************************************************)
\* String.prototype.endsWith on the file names of the model
EndsWith(n, suffix) ==
    \/ suffix = ".json" /\ n = "openapi.json"
    \/ suffix = ".yaml" /\ n = "openapi.yaml"

validateFileIsJsonOrYaml(file) ==
    EndsWith(file.name, ".json") \/ EndsWith(file.name, ".yaml")

\* TextDecoder.decode (utf-8, ignoreBOM false): the text without its mark
ab2str(buf) == buf.text

\* file.arrayBuffer(): the bytes of the file
arrayBuffer(file) == [bom |-> file.bom, text |-> file.text]

\* YAML.parse: JSON is YAML, one parser reads both; [threw, value]
YAMLparse(text) ==
    IF text.syntax \in {"json", "yaml"}
    THEN [threw |-> FALSE, value |-> text.doc]
    ELSE [threw |-> TRUE, value |-> NoDoc]

\* SwaggerParser.validate resolves with the document or rejects
validateResolves(apiObject) == apiObject.valid

(***************************************************************************)
(* collateTags.  A Map is a sequence of [key, value] entries in insertion  *)
(* order.  Keys are compared by reference: a declared TagObject is the     *)
(* entry of api.tags at its index, untaggedTag is the one object made at   *)
(* line 102, and undefined is what Array.prototype.find returns when no    *)
(* entry matches.                                                          *)
(***************************************************************************)
DeclaredKey(i) == [ref |-> "api.tags", idx |-> i]
untaggedTag == [ref |-> "untaggedTag", idx |-> 0]
UndefinedKey == [ref |-> "undefined", idx |-> 0]

MapHas(map, key) == \E i \in 1..Len(map) : map[i].key = key

MapIndex(map, key) == CHOOSE i \in 1..Len(map) : map[i].key = key

\* tagMap.get(key) || []
MapGetOrEmpty(map, key) ==
    IF MapHas(map, key) THEN map[MapIndex(map, key)].value ELSE <<>>

\* a set that moves a present key to the end (as delete followed by set does)
MapSetMovingToEnd(map, key, value) ==
    Append(SelectSeq(map, LAMBDA entry : entry.key # key),
           [key |-> key, value |-> value])

\* Map.prototype.set: a present key keeps its place, a new one goes last
MapSet(map, key, value) ==
    IF MapHas(map, key)
    THEN [map EXCEPT ![MapIndex(map, key)].value = value]
    ELSE Append(map, [key |-> key, value |-> value])

\* the group replaced by the one endpoint (the spread of the old group left out)
AppendToGroupWithoutSpread(map, key, endpoint) ==
    MapSet(map, key, <<endpoint>>)

\* tagMap.set(key, [...(tagMap.get(key) || []), endpoint])
AppendToGroup(map, key, endpoint) ==
    MapSet(map, key, Append(MapGetOrEmpty(map, key), endpoint))

Endpoint(p, op, oo) == [path |-> p, operation |-> op, operationObject |-> oo]

\* Object.entries(api.paths).flatMap(... Object.entries(operations).map(...))
RECURSIVE FlattenFrom(_, _)
FlattenFrom(paths, i) ==
    IF i > Len(paths) THEN <<>>
    ELSE [ j \in 1..Len(paths[i].operations) |->
             Endpoint(paths[i].path, paths[i].operations[j].operation,
                      paths[i].operations[j].operationObject) ]
         \o FlattenFrom(paths, i + 1)

Flatten(api) == FlattenFrom(api.paths, 1)

\* api.tags.find(({ name }) => name === tagName)
FindTag(api, tagName) ==
    IF \E i \in 1..Len(api.tags) : api.tags[i].name = tagName
    THEN DeclaredKey(CHOOSE i \in 1..Len(api.tags) :
                        /\ api.tags[i].name = tagName
                        /\ \A j \in 1..(i - 1) : api.tags[j].name # tagName)
    ELSE UndefinedKey

\* operationObject.tags.forEach(...) from the i-th name on; [threw, map]
RECURSIVE CollateTagNames(_, _, _, _)
CollateTagNames(api, endpoint, i, map) ==
    IF i > Len(endpoint.operationObject.tags) THEN [threw |-> FALSE, map |-> map]
    ELSE IF ~api.hasTags THEN [threw |-> TRUE, map |-> map]
    ELSE CollateTagNames(api, endpoint, i + 1,
            AppendToGroup(map, FindTag(api, endpoint.operationObject.tags[i]), endpoint))

\* the body of operations.forEach for one endpoint; [threw, map]
CollateOperation(api, endpoint, map) ==
    IF ~endpoint.operationObject.hasTags THEN [threw |-> TRUE, map |-> map]
    ELSE CollateTagNames(api, endpoint, 1,
            IF Len(endpoint.operationObject.tags) = 0
            THEN AppendToGroup(map, untaggedTag, endpoint)
            ELSE map)

RECURSIVE CollateFrom(_, _, _, _)
CollateFrom(api, operations, i, map) ==
    IF i > Len(operations) THEN [threw |-> FALSE, map |-> map]
    ELSE LET r == CollateOperation(api, operations[i], map)
         IN  IF r.threw THEN r ELSE CollateFrom(api, operations, i + 1, r.map)

\* [threw, map]: threw is a TypeError on reading a property of undefined
collateTags(api) == CollateFrom(api, Flatten(api), 1, <<>>)

(***************************************************************************)
(* createGitBookOpenAPITag, createTagPage, makePagesForTagGroups           *)
(***************************************************************************)
\* the location the reference block names, relative to the page
SwaggerSrc == "./" \o ".gitbook/assets/openapi.yaml"

createGitBookOpenAPITag(endpoint) ==
    [ src |-> SwaggerSrc, path |-> endpoint.path, method |-> endpoint.operation,
      link |-> SwaggerSrc ]

\* the TagObject a key refers to (not defined for undefined)
TagOfKey(api, key) ==
    IF key = untaggedTag
    THEN TagObj("__internal-untagged", Undefined)
    ELSE api.tags[key.idx]

createTagPage(tag, endpoints) ==
    [ path |-> tag.name \o ".md",
      contents |-> [ kind |-> "page",
                     h1 |-> tag.name,
                     description |-> tag.description,
                     externalDocs |-> Undefined,
                     blocks |-> [ i \in 1..Len(endpoints) |->
                                    createGitBookOpenAPITag(endpoints[i]) ] ] ]

\* [threw, pages]: createTagPage reads tag.name, a TypeError when tag is undefined
makePagesForTagGroups(api, map) ==
    IF MapHas(map, UndefinedKey)
    THEN [threw |-> TRUE, pages |-> <<>>]
    ELSE [threw |-> FALSE,
          pages |-> [ i \in 1..Len(map) |->
                        createTagPage(TagOfKey(api, map[i].key), map[i].value) ] ]

(***************************************************************************)
(* createSummaryFile, createReadmeFile, createZipBundle.  An archive is a  *)
(* function from entry names to contents; JSZip.file replaces an entry     *)
(* that has the name already.                                              *)
(***************************************************************************)
createSummaryFile(gitBookFiles) ==
    [ kind |-> "summary",
      heading |-> "# Table of contents",
      links |-> [ i \in 1..Len(gitBookFiles) |->
                    [text |-> gitBookFiles[i].path, target |-> gitBookFiles[i].path] ] ]

createReadmeFile(spec) == [kind |-> "readme", line |-> "# " \o spec.info.title]

\* JSZip.prototype.file(name, data)
ZipFile(bundle, name, data) ==
    [ n \in DOMAIN bundle \cup {name} |-> IF n = name THEN data ELSE bundle[n] ]

RECURSIVE ZipPagesFrom(_, _, _)
ZipPagesFrom(bundle, gitBookFiles, i) ==
    IF i > Len(gitBookFiles) THEN bundle
    ELSE ZipPagesFrom(ZipFile(bundle, gitBookFiles[i].path, gitBookFiles[i].contents),
                      gitBookFiles, i + 1)

\* bundle.folder(".gitbook").file("openapi.yaml", spec): the name of the entry
GitbookFolder == ".gitbook"
SpecEntry == GitbookFolder \o "/" \o "openapi.yaml"

\* the bundle with the parsed document written out again as YAML in place of
\* the text that was uploaded
createZipBundleReserialized(gitBookFiles, spec, parsedSpec) ==
    LET b1 == ZipFile(<<>>, "SUMMARY.md", createSummaryFile(gitBookFiles))
        b2 == ZipFile(b1, "README.md", createReadmeFile(parsedSpec))
        b3 == ZipPagesFrom(b2, gitBookFiles, 1)
        b4 == ZipFile(b3, GitbookFolder \o "/", [kind |-> "folder"])
    IN  ZipFile(b4, SpecEntry, [kind |-> "spec", text |-> MkText("yaml", parsedSpec)])

\* the archive as it stands when generateAsync is called
createZipBundle(gitBookFiles, spec, parsedSpec) ==
    LET b1 == ZipFile(<<>>, "SUMMARY.md", createSummaryFile(gitBookFiles))
        b2 == ZipFile(b1, "README.md", createReadmeFile(parsedSpec))
        b3 == ZipPagesFrom(b2, gitBookFiles, 1)
        b4 == ZipFile(b3, GitbookFolder \o "/", [kind |-> "folder"])
    IN  ZipFile(b4, SpecEntry, [kind |-> "spec", text |-> spec])

(***************************************************************************)
(* Home: the React state and the runs of handleFileUpload.  A run is at    *)
(* one of its awaits ("arrayBuffer", "validate", "generateAsync"), has     *)
(* returned early ("returned"), has run to its end ("done"), or its        *)
(* promise was rejected by a throw or a rejected await ("rejected", with    *)
(* the call that failed in thrownAt); nothing handles the rejection.       *)
(* zipUrl is 0 for undefined and r for the object URL made for the blob of *)
(* run r.  collated says that collateTags returned; overlapped records     *)
(* that the run was started while an earlier one was suspended.            *)
(***************************************************************************)
Runs == 1..MaxRuns

Suspended == {"arrayBuffer", "validate", "generateAsync"}

NoFile == MkFile("", FALSE, GarbageText)

IdleRun ==
    [ pc |-> "idle", file |-> NoFile, filecontentsdecoded |-> GarbageText,
      api |-> NoDoc, collated |-> FALSE, endpointsGroupedByTag |-> <<>>,
      pages |-> <<>>, bundle |-> <<>>, thrownAt |-> "", overlapped |-> FALSE ]

Init ==
    /\ error = Undefined
    /\ zipUrl = 0
    /\ runs = [r \in Runs |-> IdleRun]

\* handleFileUpload up to its first await (lines 137-142)
Upload(r, f) ==
    /\ runs[r].pc = "idle"
    /\ IF r = 1 THEN TRUE ELSE runs[r - 1].pc # "idle"
    /\ LET over == \E q \in Runs : runs[q].pc \in Suspended
       IN  IF ~validateFileIsJsonOrYaml(f)
           THEN /\ error' = "File must be either JSON or YAML"
                /\ runs' = [runs EXCEPT ![r].pc = "returned", ![r].file = f,
                                        ![r].overlapped = over]
           ELSE /\ error' = error
                /\ runs' = [runs EXCEPT ![r].pc = "arrayBuffer", ![r].file = f,
                                        ![r].overlapped = over]
    /\ UNCHANGED zipUrl

\* file.arrayBuffer() resolves: lines 143-145 up to the await of validate
ReadResolved(r) ==
    /\ runs[r].pc = "arrayBuffer"
    /\ LET decoded == ab2str(arrayBuffer(runs[r].file))
           parsed == YAMLparse(decoded)
       IN  runs' = [runs EXCEPT
                      ![r].filecontentsdecoded = decoded,
                      ![r].api = parsed.value,
                      ![r].thrownAt = IF parsed.threw THEN "YAML.parse" ELSE "",
                      ![r].pc = IF parsed.threw THEN "rejected" ELSE "validate"]
    /\ UNCHANGED <<error, zipUrl>>

\* file.arrayBuffer() rejects (the file cannot be read)
ReadRejected(r) ==
    /\ runs[r].pc = "arrayBuffer"
    /\ runs' = [runs EXCEPT ![r].pc = "rejected", ![r].thrownAt = "file.arrayBuffer"]
    /\ UNCHANGED <<error, zipUrl>>

\* SwaggerParser.validate rejects
ValidateRejected(r) ==
    /\ runs[r].pc = "validate"
    /\ ~validateResolves(runs[r].api)
    /\ runs' = [runs EXCEPT ![r].pc = "rejected",
                            ![r].thrownAt = "SwaggerParser.validate"]
    /\ UNCHANGED <<error, zipUrl>>

\* SwaggerParser.validate resolves: lines 146-149 up to the await inside
\* createZipBundle (line 79)
ValidateResolved(r) ==
    /\ runs[r].pc = "validate"
    /\ validateResolves(runs[r].api)
    /\ LET api == runs[r].api
           grouped == collateTags(api)
           made == makePagesForTagGroups(api, grouped.map)
       IN  runs' =
             IF grouped.threw
             THEN [runs EXCEPT ![r].pc = "rejected", ![r].thrownAt = "collateTags"]
             ELSE IF made.threw
             THEN [runs EXCEPT ![r].collated = TRUE,
                               ![r].endpointsGroupedByTag = grouped.map,
                               ![r].pc = "rejected",
                               ![r].thrownAt = "createTagPage"]
             ELSE [runs EXCEPT ![r].collated = TRUE,
                               ![r].endpointsGroupedByTag = grouped.map,
                               ![r].pages = made.pages,
                               ![r].bundle = createZipBundle(made.pages,
                                                runs[r].filecontentsdecoded, api),
                               ![r].pc = "generateAsync"]
    /\ UNCHANGED <<error, zipUrl>>

\* bundle.generateAsync resolves: line 150
GenerateResolved(r) ==
    /\ runs[r].pc = "generateAsync"
    /\ zipUrl' = r
    /\ runs' = [runs EXCEPT ![r].pc = "done"]
    /\ UNCHANGED error

RunStep(r) ==
    \/ ReadResolved(r)
    \/ ReadRejected(r)
    \/ ValidateRejected(r)
    \/ ValidateResolved(r)
    \/ GenerateResolved(r)

\* the user picks a file while earlier runs may still be suspended
UploadInSession ==
    \E r \in Runs : runs[r].pc = "idle" /\ \E f \in SessionFiles : Upload(r, f)

\* the user picks any file of the input space, once
UploadOnce ==
    /\ runs[1].pc = "idle"
    /\ \/ \E sh \in Shapes, tg \in DeclaredLists, syn \in Syntaxes, t \in Titles :
            \E ta \in TagAssignments(ShapeOps(sh), MaxRefs) :
                Upload(1, DocFile(syn, MkDoc(t, TRUE, tg, PathsOf(sh, ta))))
       \/ \E f \in NamedFiles \cup OddFiles : Upload(1, f)

\* a session of the page: up to MaxRuns uploads, each started while earlier
\* runs may still be suspended
Next ==
    \/ UploadInSession
    \/ \E r \in Runs : RunStep(r)

Spec == Init /\ [][Next]_vars

\* one upload of any file of the input space
NextPipeline ==
    \/ UploadOnce
    \/ RunStep(1)

SpecPipeline == Init /\ [][NextPipeline]_vars

(***************************************************************************)
(* Properties.                                                             *)
(***************************************************************************)
SeqRange(seq) == { seq[i] : i \in 1..Len(seq) }

Count(seq, e) == Cardinality({ i \in 1..Len(seq) : seq[i] = e })

\* the runs for which collateTags returned a map, and those for which
\* createZipBundle built an archive
HasMap(r) == runs[r].collated
HasBundle(r) == runs[r].pc \in {"generateAsync", "done"}

\* the (path x method) endpoints of a document, as a set
AllEndpoints(api) ==
    UNION { { Endpoint(api.paths[i].path, api.paths[i].operations[j].operation,
                       api.paths[i].operations[j].operationObject)
              : j \in 1..Len(api.paths[i].operations) }
            : i \in 1..Len(api.paths) }

GroupedEndpoints(map) == UNION { SeqRange(map[i].value) : i \in 1..Len(map) }

GroupOfTagNamed(api, key, a) ==
    /\ key.ref = "api.tags"
    /\ api.tags[key.idx].name = a

\* C2: in every map collateTags returns, the endpoint of an operation that
\* lists tags is in the group of the tag named a for each name a it lists,
\* and in no group but those.
C2_FanOut ==
    \A r \in Runs : HasMap(r) =>
        LET map == runs[r].endpointsGroupedByTag
            api == runs[r].api
        IN  \A e \in AllEndpoints(api) :
              Len(e.operationObject.tags) > 0 =>
                /\ \A a \in SeqRange(e.operationObject.tags) :
                     \E i \in 1..Len(map) :
                        /\ GroupOfTagNamed(api, map[i].key, a)
                        /\ e \in SeqRange(map[i].value)
                /\ \A i \in 1..Len(map) :
                     e \in SeqRange(map[i].value) =>
                        \E a \in SeqRange(e.operationObject.tags) :
                            GroupOfTagNamed(api, map[i].key, a)

\* C3: in every archive, SUMMARY.md is the summary, its link targets are
\* exactly the names of the page entries, and there is one link per page
\* entry.
C3_SummaryPageCorrespondence ==
    \A r \in Runs : HasBundle(r) =>
        LET b == runs[r].bundle
            pageEntries == { n \in DOMAIN b : b[n].kind = "page" }
        IN  /\ b["SUMMARY.md"].kind = "summary"
            /\ { b["SUMMARY.md"].links[i].target
                 : i \in 1..Len(b["SUMMARY.md"].links) } = pageEntries
            /\ Len(b["SUMMARY.md"].links) = Cardinality(pageEntries)

\* C4: in every archive, README.md reads "# " followed by the title of the
\* document.
C4_ReadmeTitle ==
    \A r \in Runs : HasBundle(r) =>
        runs[r].bundle["README.md"] =
            [kind |-> "readme", line |-> "# " \o runs[r].api.info.title]

\* C5: in every archive, the entry .gitbook/openapi.yaml holds the text of
\* the uploaded file as it was, JSON or YAML, whatever the tags are named.
C5_VerbatimEmbedding ==
    \A r \in Runs : HasBundle(r) =>
        /\ ".gitbook/openapi.yaml" \in DOMAIN runs[r].bundle
        /\ runs[r].bundle[".gitbook/openapi.yaml"] =
              [kind |-> "spec", text |-> runs[r].file.text]

\* an archive made from JSON text, with a page whose path starts with the
\* name of the spec entry
C5_Witness ==
    \E r \in Runs :
        /\ HasBundle(r)
        /\ runs[r].file.text.syntax = "json"
        /\ ".gitbook/openapi.yaml.md" \in DOMAIN runs[r].bundle

\* C6: the result of a failed tag lookup is never a key of the grouping.
C6_UnknownTagNeverAKey ==
    \A r \in Runs : HasMap(r) => ~MapHas(runs[r].endpointsGroupedByTag, UndefinedKey)

\* C7: a run in which YAML.parse or SwaggerParser.validate failed did not
\* reach collateTags, built no archive, set no download link, and the error
\* state is set.
C7_FailureSurfaced ==
    \A r \in Runs :
        (runs[r].pc = "rejected"
         /\ runs[r].thrownAt \in {"YAML.parse", "SwaggerParser.validate"}) =>
            /\ ~runs[r].collated
            /\ runs[r].bundle = <<>>
            /\ zipUrl # r
            /\ error # Undefined

\* C9: in every archive, each reference block of each page names the path
\* and method of its endpoint, and its src, taken relative to the root of
\* the archive, is the entry that holds the bundled spec.
C9_ReferenceResolves ==
    \A r \in Runs : HasBundle(r) =>
        \A i \in 1..Len(runs[r].pages) :
            LET blocks == runs[r].pages[i].contents.blocks
                group == runs[r].endpointsGroupedByTag[i].value
            IN  \A k \in 1..Len(blocks) :
                  /\ blocks[k].path = group[k].path
                  /\ blocks[k].method = group[k].operation
                  /\ \E n \in DOMAIN runs[r].bundle :
                        /\ blocks[k].src = "./" \o n
                        /\ runs[r].bundle[n].kind = "spec"

\* the run started last
LastStarted == CHOOSE r \in Runs : runs[r].pc # "idle" /\ \A q \in Runs : q > r => runs[q].pc = "idle"

\* C10: in a session in which an upload was started while an earlier run
\* was suspended, once no run is suspended and the run started last has
\* delivered its archive, the download link is the one of that archive: an
\* older run that finishes late does not replace it.
C10_LatestUploadWins ==
    ( /\ \E r \in Runs : runs[r].overlapped
      /\ \A r \in Runs : runs[r].pc \notin Suspended
      /\ runs[LastStarted].pc = "done" ) =>
        zipUrl = LastStarted

\* the groups an operation populates, in the order it does: the synthetic
\* group when it lists no tag, else the group of each name it lists
Populates(oo) ==
    IF Len(oo.tags) = 0
    THEN << [synthetic |-> TRUE, name |-> "__internal-untagged"] >>
    ELSE [ j \in 1..Len(oo.tags) |-> [synthetic |-> FALSE, name |-> oo.tags[j]] ]

\* the groups populated by the methods of a path item from the j-th on, then
\* by the path items after the i-th
RECURSIVE Encounters(_, _, _)
Encounters(paths, i, j) ==
    IF i > Len(paths) THEN <<>>
    ELSE IF j > Len(paths[i].operations) THEN Encounters(paths, i + 1, 1)
    ELSE Populates(paths[i].operations[j].operationObject) \o Encounters(paths, i, j + 1)

\* a sequence without the repetitions of its elements
RECURSIVE FirstOccurrences(_)
FirstOccurrences(seq) ==
    IF seq = <<>> THEN <<>>
    ELSE LET init == FirstOccurrences(SubSeq(seq, 1, Len(seq) - 1))
             last == seq[Len(seq)]
         IN  IF last \in SeqRange(init) THEN init ELSE Append(init, last)

====
